---- MODULE Spec2Model ----
(***************************************************************************)
(* Lexical front end of shallows_vm: the line collection (line_map.rs),    *)
(* the index-based Cursor and the Lexer (lexer.rs).                        *)
(*                                                                         *)
(* A character is a one-character string; "U+00E9" stands for a character  *)
(* whose UTF-8 encoding is two bytes long.  A text is a sequence of        *)
(* characters.  A file is the sequence of characters read from the path.   *)
(***************************************************************************)
EXTENDS Integers, Sequences, FiniteSets, TLC

VARIABLES
    file,       \* the characters of the source file
    lines,      \* Lines::from_path(file): sequence of [idx, content]
    line_idx,   \* Cursor.line_idx
    col_idx,    \* Cursor.col_idx
    toks,       \* the tokens returned so far by Lexer::next_token, in order
    seen,       \* what the direct cursor calls handed out so far: the results
                \* of advance and the characters of the texts of eat_while
    fault,      \* which reads of the file fail: [open, bad (indices of lines)]
    built,      \* the Result of Lines::from_path, "pending" before the call
    inner_lines,  \* LineReader.inner_lines: number of lines already taken
    current_idx,  \* LineReader.current_idx
    yielded,    \* the items LineReader::next has returned so far
    it,         \* the Cursor of cursor.rs: [line_idx, col_idx, chars]
    last_call   \* the last direct cursor call: [op, result, it_result]

vars == <<file, lines, line_idx, col_idx, toks,
          seen, fault, built, inner_lines, current_idx, yielded,
          it, last_call>>

(***************************************************************************)
(* Bounds of the model.                                                    *)
(***************************************************************************)
MaxFile == 4      \* longest file over the general alphabet
MaxCalls == 7     \* calls of next_token per session
MaxTail == 3      \* characters after the leading digit of a numeric input
MaxOps == 3       \* longest file over the operator alphabet
MaxSuffix == 2    \* characters after a word of the identifier inputs
MaxBody == 2      \* characters of a comment body, and of the text after it
MaxSym == 2       \* longest file over the symbol alphabet

(***************************************************************************)
(* Characters.                                                             *)
(***************************************************************************)
None == "<none>"
NonAscii == "U+00E9"

Lower ==
    {"a","b","c","d","e","f","g","h","i","j","k","l","m",
     "n","o","p","q","r","s","t","u","v","w","x","y","z"}
Upper ==
    {"A","B","C","D","E","F","G","H","I","J","K","L","M",
     "N","O","P","Q","R","S","T","U","V","W","X","Y","Z"}
Digit == {"0","1","2","3","4","5","6","7","8","9"}
Space == {" ", "\t", "\n", "\r"}
Punct ==
    {"(", ")", "{", "}", ",", ";", ":", "+", "-", "*", "/",
     "=", "!", "<", ">", "&", "|", "\"", ".", "_", "#", "\\"}
Char == Lower \cup Upper \cup Digit \cup Space \cup Punct \cup {NonAscii}

\* the upper-case letter of each lower-case letter
UpperOf ==
    "a" :> "A" @@ "b" :> "B" @@ "c" :> "C" @@ "d" :> "D" @@ "e" :> "E" @@ "f" :> "F" @@ "g" :> "G" @@
    "h" :> "H" @@ "i" :> "I" @@ "j" :> "J" @@ "k" :> "K" @@ "l" :> "L" @@ "m" :> "M" @@ "n" :> "N" @@
    "o" :> "O" @@ "p" :> "P" @@ "q" :> "Q" @@ "r" :> "R" @@ "s" :> "S" @@ "t" :> "T" @@ "u" :> "U" @@
    "v" :> "V" @@ "w" :> "W" @@ "x" :> "X" @@ "y" :> "Y" @@ "z" :> "Z"

\* str::len counts bytes, str::chars counts characters
utf8_len(c) == IF c = NonAscii THEN 2 ELSE 1

RECURSIVE byte_len(_)
byte_len(s) == IF s = <<>> THEN 0 ELSE utf8_len(Head(s)) + byte_len(Tail(s))

chars_nth(s, n) == IF n < Len(s) THEN s[n + 1] ELSE None

is_whitespace(c) == c \in Space
is_ascii_digit(c) == c \in Digit
is_ascii_alphabetic(c) == c \in Lower \cup Upper
is_ident_start(c) == is_ascii_alphabetic(c) \/ c = "_"
is_ident_char(c) == is_ascii_alphabetic(c) \/ is_ascii_digit(c) \/ c = "_"

(***************************************************************************)
(* line_map.rs: Lines::from_path.                                          *)
(***************************************************************************)
\* BufRead::lines: split at '\n', drop the terminator ("\n" or "\r\n")
strip_cr(s) ==
    IF s # <<>> /\ s[Len(s)] = "\r" THEN SubSeq(s, 1, Len(s) - 1) ELSE s

read_lines(f) ==
    LET RECURSIVE go(_, _, _)
        go(i, cur, out) ==
            IF i > Len(f)
            THEN IF cur = <<>> THEN out ELSE Append(out, cur)
            ELSE IF f[i] = "\n"
                 THEN go(i + 1, <<>>, Append(out, strip_cr(cur)))
                 ELSE go(i + 1, Append(cur, f[i]), out)
    IN go(1, <<>>, <<>>)

\* the reads that fail: File::open, and the lines (by index) whose read
\* returns an io::Error
NoFault == [open |-> FALSE, bad |-> {}]

\* mutant: idx counts the stored lines only
Lines_from_path_dense(f, flt) ==
    LET raw == read_lines(f)
        RECURSIVE go(_, _)
        go(index, out) ==
            IF index >= Len(raw) THEN [state |-> "ok", lines |-> out]
            ELSE IF index \in flt.bad THEN [state |-> "err"]
            ELSE IF raw[index + 1] = <<>>
                 THEN go(index + 1, out)
                 ELSE go(index + 1,
                         Append(out, [idx |-> Len(out), content |-> raw[index + 1]]))
    IN IF flt.open THEN [state |-> "err"] ELSE go(0, <<>>)

\* mutant: a line whose read fails is skipped
Lines_from_path_skip_bad(f, flt) ==
    LET raw == read_lines(f)
        RECURSIVE go(_, _)
        go(index, out) ==
            IF index >= Len(raw) THEN [state |-> "ok", lines |-> out]
            ELSE IF index \in flt.bad \/ raw[index + 1] = <<>>
                 THEN go(index + 1, out)
                 ELSE go(index + 1,
                         Append(out, [idx |-> index, content |-> raw[index + 1]]))
    IN IF flt.open THEN [state |-> "err"] ELSE go(0, <<>>)

\* Lines::from_path as a Result: [state |-> "ok", lines] or [state |-> "err"]
Lines_from_path(f, flt) ==
    LET raw == read_lines(f)
        RECURSIVE go(_, _)
        go(index, out) ==
            IF index >= Len(raw) THEN [state |-> "ok", lines |-> out]
            ELSE IF index \in flt.bad THEN [state |-> "err"]
            ELSE IF raw[index + 1] = <<>>
                 THEN go(index + 1, out)
                 ELSE go(index + 1,
                         Append(out, [idx |-> index, content |-> raw[index + 1]]))
    IN IF flt.open THEN [state |-> "err"] ELSE go(0, <<>>)

\* Lines::from_path(..).expect(..) of a file that is read without error
from_path(f) == Lines_from_path(f, NoFault).lines

(***************************************************************************)
(* line_map.rs: LineReader.  inner is the number of lines already taken    *)
(* from inner_lines, cur is current_idx.  One call of next returns         *)
(* [item |-> "ok", line], [item |-> "err"] or [item |-> "none"] and the    *)
(* new inner_lines and current_idx.                                        *)
(***************************************************************************)
\* mutant: a skipped blank line does not count
LineReader_next_dense(f, flt, inner, cur) ==
    LET raw == read_lines(f)
        RECURSIVE go(_, _)
        go(n, idx) ==
            IF n >= Len(raw)
            THEN [item |-> "none", inner_lines |-> n, current_idx |-> idx]
            ELSE IF n \in flt.bad
            THEN [item |-> "err", inner_lines |-> n + 1, current_idx |-> idx]
            ELSE IF raw[n + 1] = <<>> THEN go(n + 1, idx)
            ELSE [item |-> "ok", line |-> [idx |-> idx, content |-> raw[n + 1]],
                  inner_lines |-> n + 1, current_idx |-> idx + 1]
    IN go(inner, cur)

LineReader_next(f, flt, inner, cur) ==
    LET raw == read_lines(f)
        RECURSIVE go(_, _)
        go(n, idx) ==
            IF n >= Len(raw)
            THEN [item |-> "none", inner_lines |-> n, current_idx |-> idx]
            ELSE IF n \in flt.bad
            THEN [item |-> "err", inner_lines |-> n + 1, current_idx |-> idx]
            ELSE IF raw[n + 1] = <<>> THEN go(n + 1, idx + 1)
            ELSE [item |-> "ok", line |-> [idx |-> idx, content |-> raw[n + 1]],
                  inner_lines |-> n + 1, current_idx |-> idx + 1]
    IN go(inner, cur)

(***************************************************************************)
(* lexer.rs: Cursor.  A cursor value is [line_idx, col_idx]; ls is the     *)
(* borrowed line collection.                                               *)
(***************************************************************************)
new_cursor == [line_idx |-> 0, col_idx |-> 0]

peek(ls, c) ==
    IF c.line_idx >= Len(ls) THEN None
    ELSE LET line == ls[c.line_idx + 1] IN
         IF c.col_idx < byte_len(line.content)
         THEN chars_nth(line.content, c.col_idx)
         ELSE IF c.line_idx < Len(ls) THEN "\n" ELSE None

\* mutant: the column is not reset at a newline
advance_keeps_col(ls, c) ==
    LET ch == peek(ls, c) IN
    IF ch = None THEN c
    ELSE IF ch = "\n"
         THEN [line_idx |-> c.line_idx + 1, col_idx |-> c.col_idx]
         ELSE [line_idx |-> c.line_idx, col_idx |-> c.col_idx + 1]

\* mutant: at the end of input the cursor starts over
advance_wraps(ls, c) ==
    LET ch == peek(ls, c) IN
    IF ch = None THEN [line_idx |-> 0, col_idx |-> 0]
    ELSE IF ch = "\n"
         THEN [line_idx |-> c.line_idx + 1, col_idx |-> 0]
         ELSE [line_idx |-> c.line_idx, col_idx |-> c.col_idx + 1]

\* the Option<char> that advance returns: `let ch = self.peek()?; .. Some(ch)`
advance_returns(ls, c) ==
    LET ch == peek(ls, c) IN IF ch = None THEN None ELSE ch

advance(ls, c) ==
    LET ch == peek(ls, c) IN
    IF ch = None THEN c
    ELSE IF ch = "\n"
         THEN [line_idx |-> c.line_idx + 1, col_idx |-> 0]
         ELSE [line_idx |-> c.line_idx, col_idx |-> c.col_idx + 1]

\* mutant: no fallback once the cursor is past the last stored line
loc_no_fallback(ls, c) ==
    [line |-> IF c.line_idx < Len(ls) THEN ls[c.line_idx + 1].idx ELSE 0,
     col |-> c.col_idx]

\* mutant: the line collection's own ordinal instead of Line.idx
loc_stored_ordinal(ls, c) == [line |-> c.line_idx, col |-> c.col_idx]

loc(ls, c) ==
    LET actual_line_num ==
            IF c.line_idx < Len(ls) THEN ls[c.line_idx + 1].idx
            ELSE IF c.line_idx > 0 THEN ls[Len(ls)].idx + 1 ELSE 0
    IN [line |-> actual_line_num, col |-> c.col_idx]

\* eat_while(predicate): P is the set of characters satisfying the predicate
eat_while(ls, c, P) ==
    LET RECURSIVE go(_, _)
        go(cur, result) ==
            IF peek(ls, cur) # None /\ peek(ls, cur) \in P
            THEN go(advance(ls, cur), Append(result, peek(ls, cur)))
            ELSE [cur |-> cur, text |-> result]
    IN go(c, <<>>)

(***************************************************************************)
(* cursor.rs: the iterator-based Cursor.  A cursor value is                *)
(* [line_idx, col_idx, chars]; chars is what the Chars iterator of the     *)
(* active line still holds.                                                *)
(***************************************************************************)
iter_new(ls) ==
    [line_idx |-> 0, col_idx |-> 0,
     chars |-> IF ls # <<>> THEN ls[1].content ELSE <<>>]

\* mutant: no newline is injected after the final stored line
iter_peek_no_final_newline(ls, c) ==
    IF c.chars # <<>> THEN Head(c.chars)
    ELSE IF c.line_idx + 1 < Len(ls) THEN "\n" ELSE None

iter_peek(ls, c) ==
    IF c.chars # <<>> THEN Head(c.chars)
    ELSE IF c.line_idx < Len(ls) THEN "\n" ELSE None

\* returns [ch, cur]: the Option<char> returned and the cursor afterwards
iter_advance(ls, c) ==
    IF c.chars # <<>>
    THEN [ch |-> Head(c.chars),
          cur |-> [c EXCEPT !.col_idx = @ + 1, !.chars = Tail(@)]]
    ELSE IF c.line_idx < Len(ls)
         THEN [ch |-> "\n",
               cur |-> [line_idx |-> c.line_idx + 1, col_idx |-> 0,
                        chars |-> IF c.line_idx + 1 < Len(ls)
                                  THEN ls[c.line_idx + 2].content ELSE <<>>]]
         ELSE [ch |-> None, cur |-> c]

iter_loc(ls, c) ==
    LET actual_line_num ==
            IF c.line_idx < Len(ls) THEN ls[c.line_idx + 1].idx
            ELSE IF c.line_idx > 0 /\ ls # <<>> THEN ls[Len(ls)].idx + 1 ELSE 0
    IN [line |-> actual_line_num, col |-> c.col_idx]

iter_eat_while(ls, c, P) ==
    LET RECURSIVE go(_, _)
        go(cur, result) ==
            IF iter_peek(ls, cur) # None /\ iter_peek(ls, cur) \in P
            THEN go(iter_advance(ls, cur).cur,
                    Append(result, iter_advance(ls, cur).ch))
            ELSE [cur |-> cur, text |-> result]
    IN go(c, <<>>)

(***************************************************************************)
(* lexer.rs: Token and Lexer.  A token is [kind, text, msg, line, col]:    *)
(* text is the String carried by Ident/Int/Float/String (and the offending *)
(* character of an "Unexpected character" error), msg the error message.   *)
(***************************************************************************)
make_token(kind, text, msg, start_loc) ==
    [kind |-> kind, text |-> text, msg |-> msg,
     line |-> start_loc.line, col |-> start_loc.col]

skip_whitespace(ls, c) ==
    eat_while(ls, c, {ch \in Char : is_whitespace(ch)}).cur

\* mutant: the matched character is not consumed
match_char_peek_only(ls, c, expected) ==
    [matched |-> peek(ls, c) = expected, cur |-> c]

match_char(ls, c, expected) ==
    IF peek(ls, c) = expected
    THEN [matched |-> TRUE, cur |-> advance(ls, c)]
    ELSE [matched |-> FALSE, cur |-> c]

\* mutant: the keyword table is matched without regard to case
keyword_kind_ignore_case(raw) ==
    LET low == [k \in 1..Len(raw) |->
                   IF raw[k] \in Upper
                   THEN CHOOSE l \in Lower : UpperOf[l] = raw[k]
                   ELSE raw[k]]
    IN CASE low = <<"l","e","t">> -> "Let"
         [] low = <<"i","f">> -> "If"
         [] low = <<"e","l","i","f">> -> "Elif"
         [] low = <<"e","l","s","e">> -> "Else"
         [] low = <<"y","i","e","l","d">> -> "Yield"
         [] low = <<"r","e","t","u","r","n">> -> "Return"
         [] low = <<"t","r","u","e">> -> "True"
         [] low = <<"f","a","l","s","e">> -> "False"
         [] OTHER -> "Ident"

\* the keyword table of next_token
keyword_kind(raw) ==
    CASE raw = <<"l","e","t">> -> "Let"
      [] raw = <<"i","f">> -> "If"
      [] raw = <<"e","l","i","f">> -> "Elif"
      [] raw = <<"e","l","s","e">> -> "Else"
      [] raw = <<"y","i","e","l","d">> -> "Yield"
      [] raw = <<"r","e","t","u","r","n">> -> "Return"
      [] raw = <<"t","r","u","e">> -> "True"
      [] raw = <<"f","a","l","s","e">> -> "False"
      [] OTHER -> "Ident"

scan_ident(ls, c, start_loc) ==
    LET r == eat_while(ls, c, {ch \in Char : is_ident_char(ch)})
        kind == keyword_kind(r.text)
    IN [tok |-> make_token(kind, IF kind = "Ident" THEN r.text ELSE <<>>,
                           "", start_loc),
        cur |-> r.cur]

\* mutant: the end of input closes an open string
scan_string_eof_closes(ls, c, start_loc) ==
    LET opened == advance(ls, c)
        body == eat_while(ls, opened, Char \ {"\""})
    IN [tok |-> make_token("String", body.text, "", start_loc),
        cur |-> advance(ls, body.cur)]

\* the loop of scan_string advances while peek is a character other than `"`
scan_string(ls, c, start_loc) ==
    LET opened == advance(ls, c)
        body == eat_while(ls, opened, Char \ {"\""})
    IN IF peek(ls, body.cur) = "\""
       THEN [tok |-> make_token("String", body.text, "", start_loc),
             cur |-> advance(ls, body.cur)]
       ELSE [tok |-> make_token("Error", <<>>, "Unterminated string", start_loc),
             cur |-> body.cur]

\* scan_number, step by step; st is [cur, raw, is_float]
number_digits == {ch \in Char : is_ascii_digit(ch) \/ ch = "_"}

push_advance(ls, st) ==
    [st EXCEPT !.raw = Append(@, peek(ls, st.cur)), !.cur = advance(ls, @)]

push_while(ls, st, P) ==
    LET r == eat_while(ls, st.cur, P)
    IN [st EXCEPT !.raw = @ \o r.text, !.cur = r.cur]

number_integer_part(ls, c) ==
    push_while(ls, [cur |-> c, raw |-> <<>>, is_float |-> FALSE], number_digits)

number_fraction(ls, st) ==
    IF peek(ls, st.cur) = "."
    THEN push_while(ls, push_advance(ls, [st EXCEPT !.is_float = TRUE]),
                    number_digits)
    ELSE st

\* mutant: the sign is taken without looking at it
number_exponent_unchecked_sign(ls, st) ==
    IF peek(ls, st.cur) \in {"e", "E"}
    THEN LET e == push_advance(ls, [st EXCEPT !.is_float = TRUE])
             s == push_advance(ls, e)
         IN push_while(ls, s, {ch \in Char : is_ascii_digit(ch)})
    ELSE st

number_exponent(ls, st) ==
    IF peek(ls, st.cur) \in {"e", "E"}
    THEN LET e == push_advance(ls, [st EXCEPT !.is_float = TRUE])
             s == IF peek(ls, e.cur) \in {"+", "-"} THEN push_advance(ls, e) ELSE e
         IN push_while(ls, s, {ch \in Char : is_ascii_digit(ch)})
    ELSE st

\* mutant: an integer suffix decides the classification
number_suffix_forces_int(ls, st) ==
    IF peek(ls, st.cur) = "f"
    THEN push_advance(ls, [st EXCEPT !.is_float = TRUE])
    ELSE IF peek(ls, st.cur) \in {"u", "i"}
         THEN push_advance(ls, [st EXCEPT !.is_float = FALSE])
         ELSE st

number_suffix(ls, st) ==
    IF peek(ls, st.cur) = "f"
    THEN push_advance(ls, [st EXCEPT !.is_float = TRUE])
    ELSE IF peek(ls, st.cur) \in {"u", "i"}
         THEN push_advance(ls, st)
         ELSE st

scan_number(ls, c, start_loc) ==
    LET st == number_suffix(ls,
                  number_exponent(ls,
                      number_fraction(ls, number_integer_part(ls, c))))
    IN [tok |-> make_token(IF st.is_float THEN "Float" ELSE "Int",
                           st.raw, "", start_loc),
        cur |-> st.cur]

\* the one-character symbols of next_token's match
\* mutant: a `|` is classified as Or
single_kind_with_or(ch) ==
    CASE ch = "(" -> "LParen"
      [] ch = ")" -> "RParen"
      [] ch = "{" -> "LBrace"
      [] ch = "}" -> "RBrace"
      [] ch = "," -> "Comma"
      [] ch = ";" -> "Semi"
      [] ch = ":" -> "Colon"
      [] ch = "+" -> "Plus"
      [] ch = "-" -> "Minus"
      [] ch = "*" -> "Star"
      [] ch = "|" -> "Or"
      [] OTHER -> "Error"

single_kind(ch) ==
    CASE ch = "(" -> "LParen"
      [] ch = ")" -> "RParen"
      [] ch = "{" -> "LBrace"
      [] ch = "}" -> "RBrace"
      [] ch = "," -> "Comma"
      [] ch = ";" -> "Semi"
      [] ch = ":" -> "Colon"
      [] ch = "+" -> "Plus"
      [] ch = "-" -> "Minus"
      [] ch = "*" -> "Star"
      [] OTHER -> "Error"

\* `=`, `!`, `<`, `>`: one character of lookahead for a following `=`
two_char(ls, c, expected, both, single, start_loc) ==
    LET m == match_char(ls, c, expected)
    IN [tok |-> make_token(IF m.matched THEN both ELSE single, <<>>, "", start_loc),
        cur |-> m.cur]

ampersand(ls, c, start_loc) ==
    LET m == match_char(ls, c, "&")
    IN [tok |-> IF m.matched
                THEN make_token("And", <<>>, "", start_loc)
                ELSE make_token("Error", <<>>, "Expected '&&', found '&'", start_loc),
        cur |-> m.cur]

\* what a `//` comment discards
comment_chars == Char \ {"\n"}

is_comment(ls, c) == peek(ls, c) = "/"

\* mutant: the column is advanced although nothing was read
end_of_input_moves(ls, c, start_loc) ==
    [tok |-> make_token("Eof", <<>>, "", start_loc),
     cur |-> [c EXCEPT !.col_idx = @ + 1]]

\* input exhausted: the Eof token, the cursor left where it is
end_of_input(ls, c, start_loc) ==
    [tok |-> make_token("Eof", <<>>, "", start_loc), cur |-> c]

\* mutant: step 4 classifies the character without consuming it
consume_symbol_forgotten(ls, c) == c

\* step 4 consumes the character it then classifies
consume_symbol(ls, c) == advance(ls, c)

RECURSIVE next_token(_, _)
next_token(ls, c0) ==
    LET c == skip_whitespace(ls, c0)
        start_loc == loc(ls, c)
        ch == peek(ls, c)
    IN IF ch = None THEN end_of_input(ls, c, start_loc)
       ELSE IF is_ident_start(ch) THEN scan_ident(ls, c, start_loc)
       ELSE IF is_ascii_digit(ch) THEN scan_number(ls, c, start_loc)
       ELSE IF ch = "\"" THEN scan_string(ls, c, start_loc)
       ELSE LET c1 == consume_symbol(ls, c) IN
            CASE ch = "/" ->
                   IF is_comment(ls, c1)
                   THEN next_token(ls, eat_while(ls, c1, comment_chars).cur)
                   ELSE [tok |-> make_token("Slash", <<>>, "", start_loc), cur |-> c1]
              [] ch = "=" -> two_char(ls, c1, "=", "EqEq", "Eq", start_loc)
              [] ch = "!" -> two_char(ls, c1, "=", "BangEq", "Bang", start_loc)
              [] ch = "<" -> two_char(ls, c1, "=", "Le", "Lt", start_loc)
              [] ch = ">" -> two_char(ls, c1, "=", "Ge", "Gt", start_loc)
              [] ch = "&" -> ampersand(ls, c1, start_loc)
              [] OTHER ->
                   IF single_kind(ch) = "Error"
                   THEN [tok |-> make_token("Error", <<ch>>,
                                            "Unexpected character", start_loc),
                         cur |-> c1]
                   ELSE [tok |-> make_token(single_kind(ch), <<>>, "", start_loc),
                         cur |-> c1]

\* the caller's loop: pull tokens until Eof (at most fuel + 1 of them)
RECURSIVE lex_from(_, _, _)
lex_from(ls, c, fuel) ==
    LET r == next_token(ls, c)
    IN IF r.tok.kind = "Eof" \/ fuel = 0
       THEN <<r.tok>>
       ELSE <<r.tok>> \o lex_from(ls, r.cur, fuel - 1)

lex_all(ls) == lex_from(ls, new_cursor, MaxCalls)

(***************************************************************************)
(* The session: Lines::from_path, Cursor::new, Lexer::new, then            *)
(* next_token pulled by the caller (examples/test_lexer.rs).               *)
(***************************************************************************)
cursor == [line_idx |-> line_idx, col_idx |-> col_idx]

Texts(A, n) == UNION {[1..k -> A] : k \in 0..n}

Start(files) ==
    /\ file \in files
    /\ lines = from_path(file)
    /\ line_idx = new_cursor.line_idx
    /\ col_idx = new_cursor.col_idx
    /\ toks = <<>>
    /\ seen = <<>>
    /\ fault = NoFault
    /\ built = Lines_from_path(file, fault)
    /\ inner_lines = 0
    /\ current_idx = 0
    /\ yielded = <<>>
    /\ it = iter_new(lines)
    /\ last_call = [op |-> "none"]

NextToken ==
    /\ Len(toks) < MaxCalls
    /\ LET r == next_token(lines, cursor) IN
       /\ line_idx' = r.cur.line_idx
       /\ col_idx' = r.cur.col_idx
       /\ toks' = Append(toks, r.tok)
    /\ UNCHANGED <<file, lines, seen, fault, built,
                   inner_lines, current_idx, yielded, it, last_call>>

Next == NextToken

\* one direct call of Cursor::advance, by a caller that owns the cursor
CursorAdvance ==
    /\ Len(seen) < MaxCalls
    /\ seen' = Append(seen, advance_returns(lines, cursor))
    /\ line_idx' = advance(lines, cursor).line_idx
    /\ col_idx' = advance(lines, cursor).col_idx
    /\ it' = iter_advance(lines, it).cur
    /\ last_call' = [op |-> "advance",
                     result |-> advance_returns(lines, cursor),
                     it_result |-> iter_advance(lines, it).ch]
    /\ UNCHANGED <<file, lines, toks, fault, built,
                   inner_lines, current_idx, yielded>>

NextCursor == CursorAdvance

\* one direct call of Cursor::peek (&self), on both cursors
CursorPeek ==
    /\ last_call' = [op |-> "peek",
                     result |-> peek(lines, cursor),
                     it_result |-> iter_peek(lines, it)]
    /\ UNCHANGED <<file, lines, line_idx, col_idx, toks, seen, fault, built,
                   inner_lines, current_idx, yielded, it>>

\* one direct call of Cursor::loc (&self), on both cursors
CursorLoc ==
    /\ last_call' = [op |-> "loc",
                     result |-> loc(lines, cursor),
                     it_result |-> iter_loc(lines, it)]
    /\ UNCHANGED <<file, lines, line_idx, col_idx, toks, seen, fault, built,
                   inner_lines, current_idx, yielded, it>>

\* the predicates handed to eat_while: always true, the comment's, the
\* whitespace and the identifier predicate
EatPredicates ==
    {Char, comment_chars, Space, {ch \in Char : is_ident_char(ch)}}

\* one direct call of Cursor::eat_while(predicate), on both cursors
CursorEatWhile ==
    /\ Len(seen) < MaxCalls
    /\ \E P \in EatPredicates :
           LET r == eat_while(lines, cursor, P)
               ir == iter_eat_while(lines, it, P)
           IN /\ seen' = seen \o r.text
              /\ line_idx' = r.cur.line_idx
              /\ col_idx' = r.cur.col_idx
              /\ it' = ir.cur
              /\ last_call' = [op |-> "eat_while", pred |-> P,
                               result |-> r.text, it_result |-> ir.text]
    /\ UNCHANGED <<file, lines, toks, fault, built,
                   inner_lines, current_idx, yielded>>

NextCursors == CursorPeek \/ CursorAdvance \/ CursorEatWhile \/ CursorLoc

\* Lines::from_path(path), and the caller's .expect(..) of the result
FromPath ==
    /\ built.state = "pending"
    /\ built' = Lines_from_path(file, fault)
    /\ lines' = IF built'.state = "ok" THEN built'.lines ELSE lines
    /\ UNCHANGED <<file, line_idx, col_idx, toks, seen, fault,
                   inner_lines, current_idx, yielded, it, last_call>>

\* one call of LineReader::next, on a reader that LineReader::from_path opened
ReaderNext ==
    /\ ~fault.open
    /\ Len(yielded) < MaxCalls
    /\ LET r == LineReader_next(file, fault, inner_lines, current_idx) IN
       /\ yielded' = Append(yielded, IF r.item = "ok"
                                     THEN [item |-> "ok", line |-> r.line]
                                     ELSE [item |-> r.item])
       /\ inner_lines' = r.inner_lines
       /\ current_idx' = r.current_idx
    /\ UNCHANGED <<file, lines, line_idx, col_idx, toks, seen, fault, built,
                   it, last_call>>

NextLines == FromPath \/ ReaderNext

\* the inputs named by the specification's testable properties
ExBinary == <<"0", "b", "1", "0", "1", "0">>
ExUnterminated == <<"\"", "a", "b", "c">>
ExCommented == <<"/", "/", " ", "c", "o", "m", "m", "e", "n", "t", "\n", "l", "e", "t", " ", "x", " ", "=", " ", "1", ";">>
ExPlain == <<"l", "e", "t", " ", "x", " ", "=", " ", "1", ";">>
ExLe == <<"<", "=">>
ExLoneAmp == <<"&">>
Examples == {ExBinary, ExUnterminated, ExCommented, ExPlain, ExLe, ExLoneAmp}

\* every file of at most MaxFile characters over one character of each class
Alphabet == {"\n", " ", "a", "1", "\"", "/", "=", "&", NonAscii}

Init == Start(Texts(Alphabet, MaxFile) \cup Examples)

\* numeric inputs: a digit, then at most MaxTail characters of a literal
NumExamples ==
    {[input |-> <<"1", "2", "3", "u">>, kind |-> "Int"],
     [input |-> <<"1", "0", ".", "0">>, kind |-> "Float"],
     [input |-> <<"1", ".", "5", "f">>, kind |-> "Float"],
     [input |-> <<"1", "e", "-", "3">>, kind |-> "Float"],
     [input |-> <<"1", ".", "5", "u">>, kind |-> "Float"]}
NumAlphabet == {"0", "_", ".", "e", "E", "-", "+", "f", "u", "i", "\n", "x"}
NumFiles ==
    {<<"1">> \o t : t \in Texts(NumAlphabet, MaxTail)}
        \cup {e.input : e \in NumExamples}

InitNum == Start(NumFiles)

SpecNum == InitNum /\ [][Next]_vars

\* commented inputs: `//`, a comment body, a line break, then a text
ExComment == <<" ", "c", "o", "m", "m", "e", "n", "t">>
BodyAlphabet == {"c", " ", "/", "\"", NonAscii}
TextAlphabet == {"a", "1", "/", "=", "\"", " ", "\n", NonAscii}
CommentFiles ==
    {<<"/", "/">> \o b \o <<"\n">> \o t :
        b \in Texts(BodyAlphabet, MaxBody) \cup {ExComment},
        t \in Texts(TextAlphabet, MaxBody) \cup {ExPlain}}

InitComment == Start(CommentFiles)

SpecComment == InitComment /\ [][Next]_vars

\* operator inputs: every file of at most MaxOps operator characters
OpAlphabet == {"=", "!", "<", ">", "&", " ", "\n", "a", NonAscii}

InitOp == Start(Texts(OpAlphabet, MaxOps) \cup {ExLe, ExLoneAmp})

SpecOp == InitOp /\ [][Next]_vars

\* identifier inputs: a keyword, a keyword in other casing or the beginning
\* of a keyword, then at most MaxSuffix further characters
KeywordTable ==
    {<<<<"l", "e", "t">>, "Let">>,
     <<<<"i", "f">>, "If">>,
     <<<<"e", "l", "i", "f">>, "Elif">>,
     <<<<"e", "l", "s", "e">>, "Else">>,
     <<<<"y", "i", "e", "l", "d">>, "Yield">>,
     <<<<"r", "e", "t", "u", "r", "n">>, "Return">>,
     <<<<"t", "r", "u", "e">>, "True">>,
     <<<<"f", "a", "l", "s", "e">>, "False">>}
Keywords == {p[1] : p \in KeywordTable}
Capitalised(w) == [w EXCEPT ![1] = UpperOf[@]]
UpperCased(w) == [k \in 1..Len(w) |-> UpperOf[w[k]]]
Beginnings(w) == {SubSeq(w, 1, n) : n \in 1..(Len(w) - 1)}
Words ==
    Keywords \cup {Capitalised(w) : w \in Keywords}
        \cup {UpperCased(w) : w \in Keywords}
        \cup UNION {Beginnings(w) : w \in Keywords}
SuffixAlphabet == {"x", "_", "1", " ", "=", NonAscii}
ExLetLet == <<"l", "e", "t", " ", "L", "e", "t">>
IdentFiles ==
    {w \o t : w \in Words, t \in Texts(SuffixAlphabet, MaxSuffix)}
        \cup {ExLetLet}

InitIdent == Start(IdentFiles)

SpecIdent == InitIdent /\ [][Next]_vars

\* files with unrecognized characters, of one byte and of two
ErrAlphabet == {"#", "a", " ", "\n", "\"", "/", NonAscii}

InitErr == Start(Texts(ErrAlphabet, MaxFile))

SpecErr == InitErr /\ [][Next]_vars

\* a cursor advanced by hand over general files and over a run of blank lines
ExBlankRun == <<"a", "\n", "\n", "\n", "\n", "b">>

InitCursor == Start(Texts(Alphabet, MaxFile) \cup {ExBlankRun})

SpecCursor == InitCursor /\ [][NextCursor]_vars

\* files read line by line, eagerly and lazily, with and without failing reads
LineAlphabet == {"a", " ", "\n", "\r"}

Faults(f) ==
    {NoFault, [open |-> TRUE, bad |-> {}]}
        \cup {[open |-> FALSE, bad |-> {k}] : k \in 0..(Len(read_lines(f)) - 1)}

InitLines ==
    /\ file \in Texts(LineAlphabet, MaxFile) \cup {ExBlankRun}
    /\ fault \in Faults(file)
    /\ built = [state |-> "pending"]
    /\ lines = <<>>
    /\ line_idx = new_cursor.line_idx
    /\ col_idx = new_cursor.col_idx
    /\ toks = <<>>
    /\ seen = <<>>
    /\ inner_lines = 0
    /\ current_idx = 0
    /\ yielded = <<>>
    /\ it = iter_new(lines)
    /\ last_call = [op |-> "none"]

SpecLines == InitLines /\ [][NextLines]_vars

\* string literals with backslashes, line breaks and a two-byte character
StrAlphabet == {"\"", "a", "\\", "\n", NonAscii}

InitStr == Start(Texts(StrAlphabet, MaxFile))

SpecStr == InitStr /\ [][Next]_vars

\* both cursors driven in lockstep by every sequence of the four calls
CursorAlphabet == {"\n", " ", "a", NonAscii}

InitCursors == Start(Texts(CursorAlphabet, MaxFile) \cup {ExBlankRun})

SpecCursors == InitCursors /\ [][NextCursors]_vars

\* the inputs of every advance().unwrap(): numbers with fraction, exponent,
\* sign and suffix, strings, at the end of a line and of the input
UnwrapAlphabet == {"1", ".", "e", "-", "u", "\"", "\n", NonAscii}

InitUnwrap == Start(Texts(UnwrapAlphabet, MaxFile))

SpecUnwrap == InitUnwrap /\ [][Next]_vars

\* the symbol kinds TokenKind declares, each with the text of its comment
SymbolTable ==
    {<<"Eq", <<"=">>>>, <<"EqEq", <<"=", "=">>>>,
     <<"Bang", <<"!">>>>, <<"BangEq", <<"!", "=">>>>,
     <<"Plus", <<"+">>>>, <<"Minus", <<"-">>>>,
     <<"Star", <<"*">>>>, <<"Slash", <<"/">>>>,
     <<"Lt", <<"<">>>>, <<"Le", <<"<", "=">>>>,
     <<"Gt", <<">">>>>, <<"Ge", <<">", "=">>>>,
     <<"And", <<"&", "&">>>>, <<"Or", <<"|", "|">>>>,
     <<"LParen", <<"(">>>>, <<"RParen", <<")">>>>,
     <<"LBrace", <<"{">>>>, <<"RBrace", <<"}">>>>,
     <<"Comma", <<",">>>>, <<"Colon", <<":">>>>, <<"Semi", <<";">>>>}

\* every file of symbol characters
SymAlphabet == UNION {{p[2][k] : k \in 1..Len(p[2])} : p \in SymbolTable}

InitSym == Start(Texts(SymAlphabet, MaxSym))

SpecSym == InitSym /\ [][Next]_vars

Spec == Init /\ [][Next]_vars

(***************************************************************************)
(* The scanned character stream and positions in it.                       *)
(***************************************************************************)
RECURSIVE Stream(_)
Stream(ls) ==
    IF ls = <<>> THEN <<>> ELSE Head(ls).content \o <<"\n">> \o Stream(Tail(ls))

\* number of stream characters before stored line k (0-based)
RECURSIVE LineStart(_, _)
LineStart(ls, k) ==
    IF k = 0 \/ ls = <<>> THEN 0
    ELSE Len(Head(ls).content) + 1 + LineStart(Tail(ls), k - 1)

\* number of stream characters the cursor has passed
Consumed(ls, c) == LineStart(ls, c.line_idx) + c.col_idx

\* the same for a token position (line is an original index)
StoredBefore(ls, line) == Cardinality({k \in 1..Len(ls) : ls[k].idx < line})
TokenOffset(ls, t) == LineStart(ls, StoredBefore(ls, t.line)) + t.col

StreamAt(ls, off) ==
    IF off >= 0 /\ off < Len(Stream(ls)) THEN Stream(ls)[off + 1] ELSE None

CursorLt(a, b) ==
    \/ a.line_idx < b.line_idx
    \/ a.line_idx = b.line_idx /\ a.col_idx < b.col_idx

PosLeq(a, b) == a.line < b.line \/ (a.line = b.line /\ a.col <= b.col)

Last(s) == s[Len(s)]
FirstEof == CHOOSE i \in 1..Len(toks) :
                /\ toks[i].kind = "Eof"
                /\ \A j \in 1..(i - 1) : toks[j].kind # "Eof"
HasEof == \E i \in 1..Len(toks) : toks[i].kind = "Eof"

(***************************************************************************)
(* C1. Termination: repeated calls of next_token return Eof after at most  *)
(* (stored characters + synthesized newlines) + 1 calls.                   *)
(***************************************************************************)
C1_Termination ==
    Len(toks) > Len(Stream(lines)) =>
        HasEof /\ FirstEof <= Len(Stream(lines)) + 1

\* a session over a non-empty collection, pulled stream length + 1 times,
\* whose first token is not Eof and whose last is
C1_Witness ==
    /\ lines # <<>>
    /\ Len(toks) = Len(Stream(lines)) + 1
    /\ toks[1].kind # "Eof"
    /\ Last(toks).kind = "Eof"

(***************************************************************************)
(* C2. End of input is stable: after an Eof token every later call returns *)
(* the same Eof token (same position) and leaves the cursor unchanged.     *)
(***************************************************************************)
C2_EofStable ==
    [][(toks # <<>> /\ Last(toks).kind = "Eof" /\ toks' # toks) =>
          (Last(toks') = Last(toks) /\ cursor' = cursor)]_vars

\* tokens, then Eof returned twice
C2_Witness ==
    /\ Len(toks) >= 3
    /\ toks[1].kind # "Eof"
    /\ toks[Len(toks) - 1].kind = "Eof"
    /\ Last(toks).kind = "Eof"

(***************************************************************************)
(* C3. Progress: every call of next_token either moves the cursor strictly *)
(* forward or returns Eof with the cursor unchanged.                       *)
(***************************************************************************)
C3_Progress ==
    [][toks' # toks =>
          \/ CursorLt(cursor, cursor')
          \/ Last(toks').kind = "Eof" /\ cursor' = cursor]_vars

\* a string, an error token and Eof have been returned in one session
C3_Witness ==
    /\ Len(toks) >= 3
    /\ toks[1].kind = "String"
    /\ toks[2].kind = "Error"
    /\ toks[3].kind = "Eof"

(***************************************************************************)
(* C4. Position monotonicity: the positions of successive tokens never     *)
(* decrease in the lexicographic order on (line, column).                  *)
(***************************************************************************)
C4_PositionMonotone ==
    \A i \in 1..(Len(toks) - 1) : PosLeq(toks[i], toks[i + 1])

\* a string crossing a line boundary, a token after it, and the final Eof
C4_Witness ==
    /\ Len(toks) = 3
    /\ toks[1].kind = "String"
    /\ \E k \in 1..Len(toks[1].text) : toks[1].text[k] = "\n"
    /\ toks[2].line > toks[1].line
    /\ toks[3].kind = "Eof"

(***************************************************************************)
(* C5. Lexing `0b1010` yields one integer-literal token whose raw text is  *)
(* "0b1010", followed only by Eof.                                         *)
(***************************************************************************)
C5_BinaryLiteral ==
    (file = ExBinary /\ Len(toks) >= 2) =>
        /\ toks[1].kind = "Int"
        /\ toks[1].text = ExBinary
        /\ toks[2].kind = "Eof"

(***************************************************************************)
(* C6. A token that starts at a digit is Int or Float; its raw text is     *)
(* exactly the characters consumed for it; it is Float iff a '.' or an     *)
(* 'e'/'E' was consumed or the suffix is 'f'; a following 'f', 'u' or 'i'  *)
(* is taken into the raw text; `123u`, `10.0`, `1.5f`, `1e-3`, `1.5u`      *)
(* classify as the specification says.                                     *)
(***************************************************************************)
Has(text, ch) == \E k \in 1..Len(text) : text[k] = ch

C6_NumberToken ==
    (toks # <<>> /\ is_ascii_digit(StreamAt(lines, TokenOffset(lines, Last(toks))))) =>
        LET t == Last(toks)
            from == TokenOffset(lines, t)
            to == Consumed(lines, cursor)
        IN /\ t.kind \in {"Int", "Float"}
           /\ from < to
           /\ t.text = SubSeq(Stream(lines), from + 1, to)
           /\ t.kind = "Float" <=>
                  (Has(t.text, ".") \/ Has(t.text, "e") \/ Has(t.text, "E")
                       \/ Last(t.text) = "f")
           /\ Last(t.text) \notin {"f", "u", "i"} =>
                  StreamAt(lines, to) \notin {"f", "u", "i"}
           /\ \A e \in NumExamples :
                  (file = e.input /\ Len(toks) = 1) =>
                      (t.kind = e.kind /\ t.text = e.input)

\* `1.5u` has been lexed as one token
C6_Witness ==
    /\ file = <<"1", ".", "5", "u">>
    /\ Len(toks) = 1
    /\ toks[1].text = file

(***************************************************************************)
(* C7. Unterminated string: a token that starts at a double quote after    *)
(* which the input holds no other double quote is the Error token          *)
(* "Unterminated string", never a String token; that Error token is        *)
(* positioned at the opening quote; and the call after it returns Eof.     *)
(***************************************************************************)
Quote == "\""
NoQuoteAfter(ls, off) ==
    \A k \in (off + 2)..Len(Stream(ls)) : Stream(ls)[k] # Quote
IsUnterminated(t) == t.kind = "Error" /\ t.msg = "Unterminated string"

C7_UnterminatedString ==
    \A i \in 1..Len(toks) :
        LET off == TokenOffset(lines, toks[i]) IN
        /\ (toks[i].kind # "Eof" /\ StreamAt(lines, off) = Quote
                /\ NoQuoteAfter(lines, off)) =>
               /\ IsUnterminated(toks[i])
               /\ i < Len(toks) => toks[i + 1].kind = "Eof"
        /\ IsUnterminated(toks[i]) => StreamAt(lines, off) = Quote

\* `"abc` then end of file: the Error token, then Eof
C7_Witness ==
    /\ file = ExUnterminated
    /\ Len(toks) = 2
    /\ IsUnterminated(toks[1])
    /\ toks[2].kind = "Eof"

(***************************************************************************)
(* C8. Comment skipping: lexing a `//` comment line followed by a text T   *)
(* gives the same sequence of token kinds as lexing T alone; and a token   *)
(* that starts at a `/` is a Slash whose next character is not `/`.        *)
(***************************************************************************)
Kinds(ts) == [i \in 1..Len(ts) |-> ts[i].kind]

FirstBreak(f) ==
    IF Has(f, "\n") THEN CHOOSE k \in 1..Len(f) :
                            f[k] = "\n" /\ \A j \in 1..(k - 1) : f[j] # "\n"
    ELSE Len(f)

\* the text after the first line of the file
AfterFirstLine(f) == SubSeq(f, FirstBreak(f) + 1, Len(f))

StartsWithComment(f) == Len(f) >= 2 /\ f[1] = "/" /\ f[2] = "/"

C8_CommentSkipping ==
    /\ (StartsWithComment(file) /\ HasEof /\ FirstEof = Len(toks)) =>
           Kinds(toks) = Kinds(lex_all(from_path(AfterFirstLine(file))))
    /\ \A i \in 1..Len(toks) :
           LET off == TokenOffset(lines, toks[i]) IN
           (toks[i].kind # "Eof" /\ StreamAt(lines, off) = "/") =>
               (toks[i].kind = "Slash" /\ StreamAt(lines, off + 1) # "/")

\* the same statement for comment lines of one-byte characters only
AsciiOnly(f) == \A k \in 1..Len(f) : f[k] # NonAscii
C8_AsciiCommentSkipping ==
    AsciiOnly(SubSeq(file, 1, FirstBreak(file))) => C8_CommentSkipping

(***************************************************************************)
(* C9. Operator greediness: `=`, `!`, `<`, `>` immediately followed by `=` *)
(* give EqEq, BangEq, Le, Ge and consume both characters; `&&` gives And   *)
(* and consumes both; a lone `&` gives the Error token and consumes        *)
(* exactly one character.                                                  *)
(***************************************************************************)
PairKind(a) ==
    CASE a = "=" -> "EqEq" [] a = "!" -> "BangEq" [] a = "<" -> "Le" [] a = ">" -> "Ge"

C9_OperatorGreedy ==
    (toks # <<>> /\ Last(toks).kind # "Eof") =>
        LET t == Last(toks)
            off == TokenOffset(lines, t)
            a == StreamAt(lines, off)
            b == StreamAt(lines, off + 1)
            used == Consumed(lines, cursor) - off
        IN /\ (a \in {"=", "!", "<", ">"} /\ b = "=") =>
                  (t.kind = PairKind(a) /\ used = 2)
           /\ (a = "&" /\ b = "&") => (t.kind = "And" /\ used = 2)
           /\ (a = "&" /\ b # "&") =>
                  /\ t.kind = "Error"
                  /\ t.msg = "Expected '&&', found '&'"
                  /\ used = 1

\* a lone `&` gave an Error token and the `<=` right after it one Le token
C9_Witness ==
    /\ Len(toks) = 2
    /\ toks[1].kind = "Error"
    /\ toks[2].kind = "Le"
    /\ toks[2].col = 1

(***************************************************************************)
(* C10. Keyword exactness with maximal munch: a token that starts at an    *)
(* ASCII letter or underscore consumes the maximal run of ASCII letters,   *)
(* digits and underscores; it is the keyword token of that run iff the run *)
(* is exactly one of let, if, elif, else, yield, return, true, false, and  *)
(* otherwise an Ident token carrying the run.                              *)
(***************************************************************************)
IdentSet == Lower \cup Upper \cup Digit \cup {"_"}

\* the maximal run of identifier characters of the stream from offset off
RunLen(ls, off) ==
    CHOOSE n \in 0..(Len(Stream(ls)) - off) :
        /\ \A k \in 1..n : Stream(ls)[off + k] \in IdentSet
        /\ StreamAt(ls, off + n) \notin IdentSet
Run(ls, off) == SubSeq(Stream(ls), off + 1, off + RunLen(ls, off))

IsUnexpected(t) == t.kind = "Error" /\ t.msg = "Unexpected character"

Unpositioned(ts) ==
    [i \in 1..Len(ts) |-> [kind |-> ts[i].kind, text |-> ts[i].text,
                           msg |-> ts[i].msg]]

\* the input that follows the character at stream offset off
RestAfter(ls, off) == SubSeq(Stream(ls), off + 2, Len(Stream(ls)))

C11_ErrorsNonFatal ==
    \A i \in 1..Len(toks) :
        LET off == TokenOffset(lines, toks[i]) IN
        IsUnexpected(toks[i]) =>
            /\ (i = Len(toks)) => Consumed(lines, cursor) = off + 1
            /\ (HasEof /\ FirstEof = Len(toks)) =>
                   Unpositioned(SubSeq(toks, i + 1, Len(toks)))
                       = Unpositioned(lex_all(from_path(RestAfter(lines, off))))

\* the same statement for files of one-byte characters only
C11_AsciiErrorsNonFatal == AsciiOnly(file) => C11_ErrorsNonFatal

(***************************************************************************)
(* C12. Virtual newlines: the characters returned by advancing the cursor  *)
(* until it returns none are the stored lines in order, each followed by   *)
(* exactly one '\n' (so one between consecutive stored lines and one after *)
(* the last, however many blank lines were dropped between them); for an   *)
(* empty collection no character is returned.                              *)
(***************************************************************************)
Returned == SelectSeq(seen, LAMBDA ch : ch # None)

AtEnd == seen # <<>> /\ Last(seen) = None

C12_VirtualNewlines == AtEnd => Returned = Stream(lines)

\* the same statement for files of one-byte characters only
C12_AsciiVirtualNewlines == AsciiOnly(file) => C12_VirtualNewlines

\* the run of dropped blank lines is crossed with one newline
C12_BlankRunCollapsed ==
    (file = ExBlankRun /\ AtEnd) => Returned = <<"a", "\n", "b", "\n">>

(***************************************************************************)
(* C13. Token start position: every token other than Eof carries the       *)
(* position, in the file, of the first character that is neither           *)
(* whitespace nor part of a `//` comment at or after the place the         *)
(* previous call stopped: line is the number of line breaks of the file    *)
(* before that character (its line's original index, blank lines           *)
(* counted), column the number of characters before it in its line.  It    *)
(* is never the index of a dropped blank line.                             *)
(***************************************************************************)
\* file offset (0-based) of the first character of the line with index n
RECURSIVE LineOffset(_, _)
LineOffset(f, n) ==
    IF n = 0 \/ f = <<>> THEN 0
    ELSE 1 + LineOffset(Tail(f), IF Head(f) = "\n" THEN n - 1 ELSE n)

\* the place of the cursor in the file
FileOffset(f, ls, c) ==
    IF c.line_idx < Len(ls)
    THEN LineOffset(f, ls[c.line_idx + 1].idx) + c.col_idx
    ELSE Len(f)

\* offset of the first line break at or after off (the end of the file if none)
RECURSIVE LineEnd(_, _)
LineEnd(f, off) ==
    IF off >= Len(f) \/ f[off + 1] = "\n" THEN off ELSE LineEnd(f, off + 1)

RECURSIVE FirstSignificant(_, _)
FirstSignificant(f, off) ==
    IF off >= Len(f) THEN off
    ELSE IF f[off + 1] \in Space THEN FirstSignificant(f, off + 1)
    ELSE IF f[off + 1] = "/" /\ off + 1 < Len(f) /\ f[off + 2] = "/"
         THEN FirstSignificant(f, LineEnd(f, off))
         ELSE off

LineOf(f, off) == Cardinality({k \in 1..off : f[k] = "\n"})
ColOf(f, off) == off - LineOffset(f, LineOf(f, off))

DroppedIndices(f) ==
    {k \in 0..(Len(read_lines(f)) - 1) : read_lines(f)[k + 1] = <<>>}

\* the token returned by this step starts at the first significant character
StartsAtFirstSignificant ==
    LET at == FirstSignificant(file, FileOffset(file, lines, cursor))
        t == Last(toks')
    IN /\ at < Len(file)
       /\ t.line = LineOf(file, at)
       /\ t.col = ColOf(file, at)
       /\ t.line \notin DroppedIndices(file)

C13_TokenPosition ==
    [][(Len(toks') = Len(toks) + 1 /\ Last(toks').kind # "Eof")
           => StartsAtFirstSignificant]_vars

\* an identifier found after a dropped blank line and a skipped space
C13_Witness ==
    /\ file = <<"\n", " ", "a">>
    /\ toks # <<>>
    /\ Last(toks).kind = "Ident"
    /\ Last(toks).line = 1
    /\ Last(toks).col = 1

\* the statement for every token, Eof included: no token is at the index of
\* a dropped blank line
C13_EveryTokenPosition ==
    /\ \A i \in 1..Len(toks) : toks[i].line \notin DroppedIndices(file)
    /\ \A i \in 1..Len(toks) :
           toks[i].kind # "Eof" =>
               /\ toks[i].line < Len(read_lines(file))
               /\ toks[i].col < Len(read_lines(file)[toks[i].line + 1])
               /\ read_lines(file)[toks[i].line + 1][toks[i].col + 1] \notin Space

(***************************************************************************)
(* C14. Location at end of input: on a stored line loc() has that line's   *)
(* original index; past the last stored line it is (last original index    *)
(* + 1, 0); so every Eof token of a non-empty collection is at (last       *)
(* original index + 1, 0), and that of an empty collection at (0, 0).      *)
(***************************************************************************)
PastLast(ls) == [line |-> IF ls = <<>> THEN 0 ELSE ls[Len(ls)].idx + 1, col |-> 0]

C14_LocAtEnd ==
    /\ line_idx < Len(lines) =>
           loc(lines, cursor) = [line |-> lines[line_idx + 1].idx, col |-> col_idx]
    /\ line_idx >= Len(lines) => loc(lines, cursor) = PastLast(lines)
    /\ \A i \in 1..Len(toks) :
           toks[i].kind = "Eof" =>
               [line |-> toks[i].line, col |-> toks[i].col] = PastLast(lines)

\* the same statement for files of one-byte characters only
C14_AsciiLocAtEnd == AsciiOnly(file) => C14_LocAtEnd

(***************************************************************************)
(* C15. Line filtering and indexing: the collection Lines::from_path       *)
(* returns holds, in order, exactly the lines of the file of non-zero      *)
(* length (whitespace-only lines included), each with idx equal to its     *)
(* position among all lines read; idx is strictly increasing and no        *)
(* stored line is empty.                                                   *)
(***************************************************************************)
FilteredFrom(raw, ls) ==
    /\ \A k \in 1..Len(ls) :
           /\ ls[k].content # <<>>
           /\ ls[k].idx \in 0..(Len(raw) - 1)
           /\ ls[k].content = raw[ls[k].idx + 1]
    /\ \A k \in 1..(Len(ls) - 1) : ls[k].idx < ls[k + 1].idx
    /\ \A j \in 0..(Len(raw) - 1) :
           raw[j + 1] # <<>> => \E k \in 1..Len(ls) : ls[k].idx = j

C15_LineFiltering ==
    built.state = "ok" => FilteredFrom(read_lines(file), built.lines)

\* a blank line dropped between a stored line and a whitespace-only one
C15_Witness ==
    /\ file = <<"a", "\n", "\n", " ">>
    /\ built.state = "ok"
    /\ built.lines = <<[idx |-> 0, content |-> <<"a">>],
                       [idx |-> 2, content |-> <<" ">>]>>

(***************************************************************************)
(* C16. Streaming equivalence: for a file read without I/O error, the      *)
(* lines LineReader yields up to the end of its iteration are, with their  *)
(* idx and content and in order, the collection Lines::from_path returns.  *)
(***************************************************************************)
ReaderDone == \E i \in 1..Len(yielded) : yielded[i].item = "none"

YieldedLines ==
    LET oks == SelectSeq(yielded, LAMBDA y : y.item = "ok")
    IN [i \in 1..Len(oks) |-> oks[i].line]

C16_StreamingEquivalence ==
    (fault = NoFault /\ built.state = "ok" /\ ReaderDone) =>
        YieldedLines = built.lines

\* a file that begins with a blank line and ends with one
C16_Witness ==
    /\ file = <<"\n", "a", "\n", "\n">>
    /\ fault = NoFault
    /\ built.state = "ok"
    /\ ReaderDone
    /\ YieldedLines = <<[idx |-> 1, content |-> <<"a">>]>>

(***************************************************************************)
(* C18. All-or-nothing construction: when opening the file fails, or the   *)
(* read of any of its lines fails, Lines::from_path returns the error and  *)
(* no line collection, not even the lines read before the failure.         *)
(***************************************************************************)
ReadFails == fault.open \/ fault.bad # {}

C18_AllOrNothing ==
    (built.state # "pending" /\ ReadFails) =>
        (built = [state |-> "err"] /\ lines = <<>>)

\* the read of the second line fails after the first line was read
C18_Witness ==
    /\ file = <<"a", "\n", "a">>
    /\ fault = [open |-> FALSE, bad |-> {1}]
    /\ built = [state |-> "err"]

(***************************************************************************)
(* C17. Strings may cross line boundaries: a token that starts at a double *)
(* quote whose next double quote lies on a later stored line is one String *)
(* token; its content is every character between the two quotes, with one *)
(* '\n' for each stored-line boundary crossed and backslashes kept as      *)
(* ordinary characters (the quote after a backslash closes the string);    *)
(* the closing quote is consumed and not part of the content.              *)
(***************************************************************************)
\* offset of the first double quote after offset off (there is one)
NextQuote(ls, off) ==
    CHOOSE q \in (off + 1)..(Len(Stream(ls)) - 1) :
        /\ StreamAt(ls, q) = Quote
        /\ \A k \in (off + 1)..(q - 1) : StreamAt(ls, k) # Quote

Between(ls, off, q) == SubSeq(Stream(ls), off + 2, q)

ClosedOnLaterLine(ls, off) ==
    /\ StreamAt(ls, off) = Quote
    /\ ~NoQuoteAfter(ls, off)
    /\ Has(Between(ls, off, NextQuote(ls, off)), "\n")

C17_MultiLineString ==
    \A i \in 1..Len(toks) :
        LET off == TokenOffset(lines, toks[i]) IN
        (toks[i].kind # "Eof" /\ ClosedOnLaterLine(lines, off)) =>
            /\ toks[i].kind = "String"
            /\ toks[i].text = Between(lines, off, NextQuote(lines, off))
            /\ (i = Len(toks)) =>
                   Consumed(lines, cursor) = NextQuote(lines, off) + 1

\* the same statement for files of one-byte characters only
C17_AsciiMultiLineString == AsciiOnly(file) => C17_MultiLineString

(***************************************************************************)
(* C20. No premature end of input: when every character of the active     *)
(* stored line has been consumed, peek returns the synthesized '\n', not   *)
(* none; peek returns none only when the cursor is past every stored       *)
(* line; so an Eof token is returned only when all stored lines have been  *)
(* consumed.                                                               *)
(***************************************************************************)
LineExhausted ==
    line_idx < Len(lines) /\ col_idx = Len(lines[line_idx + 1].content)

C20_NoPrematureEnd ==
    /\ LineExhausted => peek(lines, cursor) = "\n"
    /\ peek(lines, cursor) = None => line_idx >= Len(lines)
    /\ (toks # <<>> /\ Last(toks).kind = "Eof") =>
           Consumed(lines, cursor) = Len(Stream(lines))

\* the same statement for files of one-byte characters only
C20_AsciiNoPrematureEnd == AsciiOnly(file) => C20_NoPrematureEnd

(***************************************************************************)
(* C21. advance commits exactly what peek shows, for the Cursor of         *)
(* lexer.rs and for the Cursor of cursor.rs: a call of advance returns     *)
(* what peek returns in the state it is called in; if that is the          *)
(* synthesized '\n' the cursor moves to the next stored line, column 0; if *)
(* it is another character only the column grows, by 1; if it is none the  *)
(* cursor is unchanged.                                                    *)
(***************************************************************************)
AdvanceStep == last_call'.op = "advance" /\ seen' # seen

Commits(shown, returned, l, c, l2, c2) ==
    /\ returned = shown
    /\ shown = "\n" => (l2 = l + 1 /\ c2 = 0)
    /\ shown \notin {"\n", None} => (l2 = l /\ c2 = c + 1)
    /\ shown = None => (l2 = l /\ c2 = c)

C21_AdvanceCommitsPeek ==
    [][AdvanceStep =>
           /\ Commits(peek(lines, cursor), last_call'.result,
                      line_idx, col_idx, line_idx', col_idx')
           /\ Commits(iter_peek(lines, it), last_call'.it_result,
                      it.line_idx, it.col_idx, it'.line_idx, it'.col_idx)
           /\ iter_peek(lines, it) = None => it' = it]_vars

\* advance has just crossed the newline between two stored lines
C21_Witness ==
    /\ file = <<"a", "\n", "a">>
    /\ last_call.op = "advance"
    /\ last_call.result = "\n"
    /\ line_idx = 1
    /\ col_idx = 0

(***************************************************************************)
(* C22. Cursor monotonicity: over every sequence of peek, advance,         *)
(* eat_while and loc calls the pair (line index, column) never decreases   *)
(* lexicographically and the line index never decreases; a call of peek    *)
(* or of loc leaves the cursor where it is; the borrowed line collection   *)
(* never changes.                                                          *)
(***************************************************************************)
C22_CursorMonotone ==
    [][/\ ~CursorLt(cursor', cursor)
       /\ line_idx' >= line_idx
       /\ lines' = lines
       /\ last_call'.op \in {"peek", "loc"} =>
              (line_idx' = line_idx /\ col_idx' = col_idx /\ seen' = seen)]_vars

\* loc called after the cursor moved into the second stored line
C22_Witness ==
    /\ file = <<"a", "\n", "a">>
    /\ last_call.op = "loc"
    /\ line_idx = 1
    /\ col_idx = 1

(***************************************************************************)
(* C23. eat_while(p) returns exactly the longest prefix of the remaining   *)
(* character stream, the '\n' after each stored line included, whose       *)
(* characters all satisfy p; it leaves the cursor on the first character   *)
(* that does not satisfy p, or at the end of the stream; it consumes       *)
(* nothing and returns the empty text when the first character fails p.    *)
(***************************************************************************)
RECURSIVE LongestPrefix(_, _)
LongestPrefix(text, P) ==
    IF text = <<>> \/ Head(text) \notin P THEN <<>>
    ELSE <<Head(text)>> \o LongestPrefix(Tail(text), P)

Remaining(ls, c) == SubSeq(Stream(ls), Consumed(ls, c) + 1, Len(Stream(ls)))

EatWhileStep ==
    last_call'.op = "eat_while" /\ (last_call' # last_call \/ seen' # seen)

C23_EatWhileLongestPrefix ==
    [][EatWhileStep =>
           LET want == LongestPrefix(Remaining(lines, cursor), last_call'.pred)
           IN /\ last_call'.result = want
              /\ Consumed(lines, cursor') = Consumed(lines, cursor) + Len(want)
              /\ Remaining(lines, cursor') = <<>>
                     \/ Head(Remaining(lines, cursor')) \notin last_call'.pred]_vars

\* the same statement for files of one-byte characters only
C23_AsciiEatWhileLongestPrefix ==
    [][AsciiOnly(file) =>
           (EatWhileStep =>
               LET want == LongestPrefix(Remaining(lines, cursor), last_call'.pred)
               IN /\ last_call'.result = want
                  /\ Consumed(lines, cursor') = Consumed(lines, cursor) + Len(want)
                  /\ Remaining(lines, cursor') = <<>>
                         \/ Head(Remaining(lines, cursor')) \notin last_call'.pred)]_vars

(***************************************************************************)
(* C24. The two cursor implementations agree: over a line collection of    *)
(* one-byte characters, after every sequence of peek, advance and loc      *)
(* calls made on both, the Cursor of cursor.rs and the Cursor of lexer.rs  *)
(* have returned the same result at every step, and would return the same  *)
(* peek and loc now, the '\n' after the final stored line and the location *)
(* past the end of input included.                                         *)
(***************************************************************************)
C24_CursorsAgree ==
    AsciiOnly(file) =>
        /\ last_call.op \in {"peek", "advance", "loc"} =>
               last_call.result = last_call.it_result
        /\ peek(lines, cursor) = iter_peek(lines, it)
        /\ loc(lines, cursor) = iter_loc(lines, it)
        /\ it.line_idx = line_idx /\ it.col_idx = col_idx

\* both have returned the newline after the final stored line
C24_Witness ==
    /\ file = <<"a", "\n", "a">>
    /\ last_call.op = "advance"
    /\ last_call.result = "\n"
    /\ last_call.it_result = "\n"
    /\ line_idx = 2
    /\ loc(lines, cursor) = [line |-> 2, col |-> 0]
    /\ iter_loc(lines, it) = [line |-> 2, col |-> 0]

\* with a two-byte character in the file the two cursors do not agree
C24_AnyContentCursorsAgree ==
    last_call.op \in {"peek", "advance", "loc"} =>
        last_call.result = last_call.it_result

(***************************************************************************)
(* C25. No reachable panic in the cursor: the line index is at most the    *)
(* number of stored lines; on an empty collection the line index stays 0,  *)
(* so loc() never evaluates lines[len - 1] there; and no text of a token   *)
(* holds the result of an advance().unwrap() that returned none (the none  *)
(* that push_advance and eat_while would have pushed).                     *)
(***************************************************************************)
UnwrappedNone(t) == Has(t.text, None)

C25_NoPanic ==
    /\ line_idx <= Len(lines)
    /\ lines = <<>> => line_idx = 0
    /\ \A i \in 1..Len(toks) : ~UnwrappedNone(toks[i])

\* a number whose '.', 'e' and sign were each taken by advance().unwrap()
C25_Witness ==
    /\ file = <<"1", ".", "e", "-">>
    /\ toks # <<>>
    /\ toks[1].kind = "Float"
    /\ toks[1].text = file

\* the same bounds for both cursors under direct calls
C25_CursorsInBounds ==
    /\ line_idx <= Len(lines) /\ it.line_idx <= Len(lines)
    /\ lines = <<>> => (line_idx = 0 /\ it.line_idx = 0)
    /\ \A k \in 1..Len(seen) : seen[k] = None => \A j \in k..Len(seen) : seen[j] = None

====
